---- MODULE Spec2Model ----
(***************************************************************************)
(* Model of buildscripts/generate_resmoke_suites.py: the aggregation of    *)
(* Evergreen test statistics (TestStats), the greedy division of tests     *)
(* into suites (divide_tests_into_suites), the fallback division and the   *)
(* orchestration in Main.                                                  *)
(*                                                                         *)
(* Runtimes are Python floats.  A float is modelled as a binary floating   *)
(* point number with MantissaBits significant bits, rounded to nearest,    *)
(* ties to even, and is written as an integer count of 2^-FractionBits     *)
(* seconds, so that comparisons are integer comparisons.  Python lists are *)
(* sequences (index i of the code is position i + 1), dicts are functions  *)
(* whose DOMAIN is the set of keys present.                                *)
(***************************************************************************)
EXTENDS Integers, Sequences, FiniteSets, TLC

VARIABLES
    pc,                    \* position in the entry point being executed
    tests_runtimes,        \* list of (test_file, runtime) pairs
    max_time_seconds,      \* argument of divide_tests_into_suites
    max_suites,            \* argument of divide_tests_into_suites
    suites,                \* list of Suite objects returned
    raised,                \* the exception that ended the run, or NoError
    _runtime_by_test,      \* TestStats: test_file -> {"num_run", "duration"}
    _hook_runtime_by_test, \* TestStats: test_name -> {"num_run", "duration"}
    samples,               \* history: per identifier, the documents added so far
    options,               \* Main.options, the parsed command line
    config_options,        \* Main.config_options
    test_list,             \* Main.test_list
    fetched,               \* history: what the statistics request returned
    listed_tests,          \* history: what list_tests() returned
    generated              \* the files written to CONFIG_DIR

divide_vars == <<tests_runtimes, max_time_seconds, max_suites, suites>>
stats_vars == <<_runtime_by_test, _hook_runtime_by_test, samples>>
main_vars == <<options, config_options, test_list, fetched, listed_tests, generated>>

vars == <<pc, divide_vars, raised, stats_vars, main_vars>>

\* Python's None where an integer may stand (max_suites, max_sub_suites).
None == 0 - 1

\* Python truth value of an optional integer: None and 0 are false.
Truthy(x) == x # None /\ x # 0

\* No exception was raised.
NoError == "NoError"

-----------------------------------------------------------------------------
(* Bounds of the model *)

MaxTests == 4          \* longest list handed to divide_tests_into_suites
MaxRuntime == 2        \* largest small runtime, in seconds
MaxTime == 2           \* largest small max_time_seconds, in seconds
MaxSuites == 2         \* largest max_suites
MaxDocs == 3           \* most documents handed to TestStats
MaxListedTests == 10   \* most tests returned by list_tests()
MaxFallbackSuites == 3 \* largest fallback_num_sub_suites
MaxMainDocs == 2       \* most documents returned to Main by the statistics request
MantissaBits == 8      \* significant bits of the modelled float
GuardBits == 4         \* binary digits kept below the smallest value used

-----------------------------------------------------------------------------
(* Floating point *)

FractionBits == MantissaBits + GuardBits

\* One second.
Unit == 2 ^ FractionBits

RECURSIVE ulp_exponent(_, _, _)
ulp_exponent(n, d, k) ==
    IF n < d * 2 ^ (MantissaBits + k) THEN k ELSE ulp_exponent(n, d, k + 1)

\* The float nearest to the rational n / d (n >= 0, d > 0), ties to even.
FRound(n, d) ==
    LET k == ulp_exponent(n, d, 0)
        g == d * 2 ^ k
        q == n \div g
        r == n % g
        up == 2 * r > g \/ (2 * r = g /\ q % 2 = 1)
    IN  (IF up THEN q + 1 ELSE q) * 2 ^ k

FAdd(a, b) == FRound(a + b, 1)
FMul(a, b) == FRound(a * b, 1)
FDiv(a, b) == FRound(a, b)

-----------------------------------------------------------------------------
(* class Suite *)

Suite == [tests |-> <<>>, total_runtime |-> 0]

add_test(suite, test_file, runtime) ==
    [tests |-> Append(suite.tests, test_file),
     total_runtime |-> FAdd(suite.total_runtime, runtime)]

get_runtime(suite) == suite.total_runtime

get_test_count(suite) == Len(suite.tests)

-----------------------------------------------------------------------------
(* divide_tests_into_suites *)

\* Mutation: the remaining tests start after the test that stopped the loop.
SliceAfter(list, from) == SubSeq(list, from + 2, Len(list))

\* tests_runtimes[last_test_processed:]
Slice(list, from) == SubSeq(list, from + 1, Len(list))

\* Mutation: suite_idx is never advanced.
next_suite_idx_stuck(suite_idx, num_suites) == 0

\* suite_idx += 1, back to 0 past the last suite.
next_suite_idx(suite_idx, num_suites) ==
    IF suite_idx + 1 >= num_suites THEN 0 ELSE suite_idx + 1

RECURSIVE divide_remaining_loop(_, _, _, _)
divide_remaining_loop(remaining, suites_, suite_idx, i) ==
    IF i > Len(remaining) THEN suites_
    ELSE LET test_file == remaining[i][1]
             runtime == remaining[i][2]
             added == [suites_ EXCEPT ![suite_idx + 1] =
                          add_test(suites_[suite_idx + 1], test_file, runtime)]
         IN  divide_remaining_loop(remaining, added,
                                   next_suite_idx(suite_idx, Len(suites_)), i + 1)

divide_remaining_tests_among_suites(remaining_tests_runtimes, suites_) ==
    divide_remaining_loop(remaining_tests_runtimes, suites_, 0, 1)

\* Mutation: the runtime of the new test is left out of the comparison.
exceeds_without_new_test(current_suite, runtime, max_time) ==
    get_runtime(current_suite) > max_time

\* current_suite.get_runtime() + runtime > max_time_seconds
exceeds(current_suite, runtime, max_time) ==
    FAdd(get_runtime(current_suite), runtime) > max_time

\* Mutation: the limit is compared with > instead of >=.
max_suites_reached_late(max_s, suites_) ==
    Truthy(max_s) /\ Len(suites_) > max_s

\* max_suites and len(suites) >= max_suites
max_suites_reached(max_s, suites_) ==
    Truthy(max_s) /\ Len(suites_) >= max_s

\* The for loop of divide_tests_into_suites, from index idx on; st holds the
\* locals suites, current_suite and last_test_processed.
RECURSIVE divide_loop(_, _, _, _, _)
divide_loop(tests, max_time, max_s, idx, st) ==
    IF idx >= Len(tests) THEN st
    ELSE
        LET test_file == tests[idx + 1][1]
            runtime == tests[idx + 1][2]
            close == /\ exceeds(st.current_suite, runtime, max_time)
                     /\ get_test_count(st.current_suite) > 0
            closed == IF close THEN Append(st.suites, st.current_suite) ELSE st.suites
            current == IF close THEN Suite ELSE st.current_suite
        IN  IF close /\ max_suites_reached(max_s, closed)
            THEN [suites |-> closed, current_suite |-> current,
                  last_test_processed |-> idx]
            ELSE divide_loop(tests, max_time, max_s, idx + 1,
                     [suites |-> closed,
                      current_suite |-> add_test(current, test_file, runtime),
                      last_test_processed |-> st.last_test_processed])

\* The state of the locals when the for loop ends.
greedy_pass(tests, max_time, max_s) ==
    divide_loop(tests, max_time, max_s, 0,
        [suites |-> <<>>, current_suite |-> Suite,
         last_test_processed |-> Len(tests)])

divide_tests_into_suites(tests, max_time, max_s) ==
    LET st == greedy_pass(tests, max_time, max_s)
        with_last == IF get_test_count(st.current_suite) > 0
                     THEN Append(st.suites, st.current_suite)
                     ELSE st.suites
    IN  IF Truthy(max_s) /\ st.last_test_processed < Len(tests)
        THEN divide_remaining_tests_among_suites(
                 Slice(tests, st.last_test_processed), with_last)
        ELSE with_last

-----------------------------------------------------------------------------
(* buildscripts.util.testname *)

\* A test_file string: the directory, the path separator used, the base name
\* without extension and, for a hook, the hook name after the ":" delimiter.
TestFile(dir, sep, name) == [dir |-> dir, sep |-> sep, name |-> name, hook |-> ""]
HookFile(name, hook) == [dir |-> "", sep |-> "/", name |-> name, hook |-> hook]

\* A Windows-style path is converted to a POSIX-style one.
normalize_test_file(test_file) == [test_file EXCEPT !.sep = "/"]

\* The name contains the hook delimiter.
is_resmoke_hook(test_file) == test_file.hook # ""

\* split_test_hook_name(test_file)[0]
split_test_hook_name_0(test_file) == test_file.name

get_short_name_from_test_file(test_file) == test_file.name

-----------------------------------------------------------------------------
(* class TestStats *)

\* An empty dict, the default value of the defaultdict(dict).
EmptyDict == <<>>

\* runtime_dict[key] on a defaultdict: the entry, or a new empty dict.
Lookup(dict, key) == IF key \in DOMAIN dict THEN dict[key] ELSE EmptyDict

\* The dict with dict[key] = value.
Store(dict, key, value) ==
    [k \in DOMAIN dict \cup {key} |-> IF k = key THEN value ELSE dict[k]]

ZeroDivisionError == "ZeroDivisionError"

\* Mutation: the two values are averaged without their weights.
_average_unweighted(value_a, num_a, value_b, num_b) ==
    IF num_a + num_b = 0
    THEN [raised |-> ZeroDivisionError, value |-> 0]
    ELSE [raised |-> NoError, value |-> FDiv(FAdd(value_a, value_b), 2)]

\* float(value_a * num_a + value_b * num_b) / (num_a + num_b)
_average(value_a, num_a, value_b, num_b) ==
    IF num_a + num_b = 0
    THEN [raised |-> ZeroDivisionError, value |-> 0]
    ELSE [raised |-> NoError,
          value |-> FDiv(FAdd(FMul(value_a, num_a), FMul(value_b, num_b)),
                         num_a + num_b)]

_add_runtime_info(runtime_dict, test_name, duration, num_run) ==
    LET runtime_info == Lookup(runtime_dict, test_name)
        average == _average(runtime_info.duration, runtime_info.num_run,
                            duration, num_run)
    IN  IF runtime_info = EmptyDict
        THEN [raised |-> NoError,
              dict |-> Store(runtime_dict, test_name,
                             [duration |-> duration, num_run |-> num_run])]
        ELSE IF average.raised # NoError
        THEN [raised |-> average.raised, dict |-> runtime_dict]
        ELSE [raised |-> NoError,
              dict |-> Store(runtime_dict, test_name,
                             [duration |-> average.value,
                              num_run |-> runtime_info.num_run + num_run])]

\* self is the pair of dicts; the result is the new pair, or the exception.
_add_test_stats(self, test_file, duration, num_run) ==
    LET added == _add_runtime_info(self._runtime_by_test, test_file, duration, num_run)
    IN  [raised |-> added.raised,
         _runtime_by_test |-> added.dict,
         _hook_runtime_by_test |-> self._hook_runtime_by_test]

_add_test_hook_stats(self, test_file, duration, num_run) ==
    LET test_name == split_test_hook_name_0(test_file)
        added == _add_runtime_info(self._hook_runtime_by_test, test_name,
                                   duration, num_run)
    IN  [raised |-> added.raised,
         _runtime_by_test |-> self._runtime_by_test,
         _hook_runtime_by_test |-> added.dict]

_add_stats(self, test_stats) ==
    LET test_file == normalize_test_file(test_stats.test_file)
        duration == test_stats.avg_duration_pass
        num_run == test_stats.num_pass
    IN  IF is_resmoke_hook(test_file)
        THEN _add_test_hook_stats(self, test_file, duration, num_run)
        ELSE _add_test_stats(self, test_file, duration, num_run)

\* TestStats.__init__: the loop over the documents, from position i on.
RECURSIVE TestStats_loop(_, _, _)
TestStats_loop(self, evg_test_stats_results, i) ==
    IF i > Len(evg_test_stats_results) \/ self.raised # NoError THEN self
    ELSE TestStats_loop(_add_stats(self, evg_test_stats_results[i]),
                        evg_test_stats_results, i + 1)

TestStats(evg_test_stats_results) ==
    TestStats_loop([raised |-> NoError, _runtime_by_test |-> <<>>,
                    _hook_runtime_by_test |-> <<>>],
                   evg_test_stats_results, 1)

\* Mutation: the hook runtime is looked up but not added.
duration_without_hook(duration, hook_runtime_info) == duration

\* if hook_runtime_info: duration += hook_runtime_info["duration"]
duration_with_hook(duration, hook_runtime_info) ==
    IF hook_runtime_info # EmptyDict
    THEN FAdd(duration, hook_runtime_info.duration)
    ELSE duration

\* Insert item after the items of a descending list whose runtime is not smaller.
RECURSIVE insert_descending(_, _)
insert_descending(list, item) ==
    IF list = <<>> THEN <<item>>
    ELSE IF Head(list)[2] >= item[2]
    THEN <<Head(list)>> \o insert_descending(Tail(list), item)
    ELSE <<item>> \o list

\* sorted(tests, key=lambda x: x[1], reverse=True), a stable sort.
RECURSIVE sorted_descending(_)
sorted_descending(tests) ==
    IF tests = <<>> THEN <<>>
    ELSE insert_descending(sorted_descending(SubSeq(tests, 1, Len(tests) - 1)),
                           tests[Len(tests)])

\* The for loop of get_tests_runtimes over items, the keys of
\* _runtime_by_test in the order the dict yields them; acc holds the list
\* tests and the hook dict, which every lookup extends with an empty entry.
RECURSIVE get_tests_runtimes_loop(_, _, _, _)
get_tests_runtimes_loop(runtime_by_test, items, i, acc) ==
    IF i > Len(items) THEN acc
    ELSE LET test_file == items[i]
             runtime_info == runtime_by_test[test_file]
             test_name == get_short_name_from_test_file(test_file)
             hook_runtime_info == Lookup(acc.hooks, test_name)
             duration == duration_with_hook(runtime_info.duration, hook_runtime_info)
         IN  get_tests_runtimes_loop(runtime_by_test, items, i + 1,
                 [tests |-> Append(acc.tests, <<test_file, duration>>),
                  hooks |-> Store(acc.hooks, test_name, hook_runtime_info)])

\* The list returned and the hook dict left behind.
get_tests_runtimes(self, items) ==
    LET done == get_tests_runtimes_loop(self._runtime_by_test, items, 1,
                    [tests |-> <<>>, hooks |-> self._hook_runtime_by_test])
    IN  [tests |-> sorted_descending(done.tests), hooks |-> done.hooks]

\* The orders in which a dict may yield its keys.
ItemOrders(dict) ==
    {order \in [1 .. Cardinality(DOMAIN dict) -> DOMAIN dict] :
        \A i, j \in DOMAIN order : i # j => order[i] # order[j]}

-----------------------------------------------------------------------------
(* get_config_options, rendering *)

\* read_config.get_config_value: command line options override config file
\* options.
get_config_value(cmd_line_value, config_file_value) ==
    IF cmd_line_value # None THEN cmd_line_value ELSE config_file_value

get_config_options(cmd_line_options, config_file_data) ==
    [fallback_num_sub_suites |->
         get_config_value(cmd_line_options.fallback_num_sub_suites,
                          config_file_data.fallback_num_sub_suites),
     max_sub_suites |->
         get_config_value(cmd_line_options.max_sub_suites,
                          config_file_data.max_sub_suites),
     suite |-> config_file_data.suite,
     task |-> config_file_data.task]

\* taskname.name_generated_task(parent_name, task_index, total_tasks)
name_generated_task(parent_name, task_index, total_tasks) ==
    [parent |-> parent_name, index |-> task_index, total |-> total_tasks,
     suffix |-> ""]

misc_name(parent_name) ==
    [parent |-> parent_name, index |-> 0, total |-> 0, suffix |-> "misc"]

\* The file written: the selector of the source suite, with roots and
\* exclude_files replaced when the argument given is not empty.
generate_subsuite_file(source_suite_name, target_suite_name, roots, excludes) ==
    [name |-> target_suite_name,
     source |-> source_suite_name,
     roots_replaced |-> roots # <<>>,
     roots |-> roots,
     exclude_files_replaced |-> excludes # <<>>,
     exclude_files |-> excludes]

\* render_suite: every suite gets its name ...
named_suites(suites_, suite_name) ==
    [idx \in DOMAIN suites_ |->
        [tests |-> suites_[idx].tests,
         total_runtime |-> suites_[idx].total_runtime,
         name |-> name_generated_task(suite_name, idx - 1, Len(suites_))]]

\* ... and its file.
render_suite(suites_, suite_name) ==
    [idx \in DOMAIN suites_ |->
        generate_subsuite_file(suite_name,
                               name_generated_task(suite_name, idx - 1, Len(suites_)),
                               suites_[idx].tests, <<>>)]

render_misc_suite(test_list_, suite_name) ==
    generate_subsuite_file(suite_name, misc_name(suite_name), <<>>, test_list_)

\* The tasks of the evergreen configuration: one per suite, and the misc task.
generate_evg_config(suites_, config_options_) ==
    [name |-> [parent |-> config_options_.task, index |-> 0, total |-> 0,
               suffix |-> "json"],
     tasks |-> [idx \in DOMAIN suites_ |->
                   [suite |-> suites_[idx].name,
                    task |-> name_generated_task(config_options_.task, idx - 1,
                                                 Len(suites_))]]
               \o <<[suite |-> misc_name(config_options_.suite),
                     task |-> misc_name(config_options_.task)]>>]

-----------------------------------------------------------------------------
(* class Main *)

\* Mutation: the fallback fills the first suite before the next one.
fallback_suite_idx_filling(idx, num_suites) ==
    IF idx < num_suites THEN 0 ELSE num_suites - 1

\* idx % num_suites
fallback_suite_idx(idx, num_suites) == idx % num_suites

RECURSIVE calculate_fallback_loop(_, _, _, _)
calculate_fallback_loop(tests, num_suites, idx, suites_) ==
    IF idx >= Len(tests) THEN suites_
    ELSE LET s == fallback_suite_idx(idx, num_suites) + 1
         IN  calculate_fallback_loop(tests, num_suites, idx + 1,
                 [suites_ EXCEPT ![s] = add_test(suites_[s], tests[idx + 1], 0)])

\* tests is the result of self.list_tests().
calculate_fallback_suites(num_suites, tests) ==
    calculate_fallback_loop(tests, num_suites, 0, [i \in 1 .. num_suites |-> Suite])

\* [info[0] for info in tests_runtimes]
first_of_each(list) == [i \in DOMAIN list |-> list[i][1]]

\* The result of calculate_suites_from_evg_stats when _runtime_by_test
\* yields its keys in the order items: the exception raised, or the new
\* test_list and the suites returned.
calculate_suites_from_evg_stats(data, execution_time_secs, max_sub_suites, items) ==
    LET test_stats == TestStats(data)
        runtimes == get_tests_runtimes(test_stats, items).tests
    IN  IF test_stats.raised # NoError
        THEN [raised |-> test_stats.raised, test_list |-> <<>>, suites |-> <<>>]
        ELSE [raised |-> NoError,
              test_list |-> first_of_each(runtimes),
              suites |-> divide_tests_into_suites(runtimes, execution_time_secs,
                                                  max_sub_suites)]

-----------------------------------------------------------------------------
(* Inputs *)

TestNames == <<"A", "B", "C", "D", "E", "F", "G", "H", "I", "J", "K">>

\* Runtimes and budgets, in seconds.
RuntimeSeconds == (0 .. MaxRuntime) \cup {100}
TimeSeconds == (1 .. MaxTime) \cup {150}

\* The lists of n pairs (test, runtime) over the first n test names.
TestsRuntimesOfLen(n) ==
    {[i \in 1 .. n |-> <<TestNames[i], rt[i] * Unit>>] :
        rt \in [1 .. n -> RuntimeSeconds]}

TestsRuntimesInputs == UNION {TestsRuntimesOfLen(n) : n \in 0 .. MaxTests}

MaxSuitesInputs == {None} \cup (1 .. MaxSuites)

\* The test_file values of the statistics documents: a test seen under its
\* POSIX and its Windows path, a second test, a hook of the first test and a
\* hook of a test that has no document of its own.
StatsTestFiles ==
    {TestFile("jstests/core", "/", "a"),
     TestFile("jstests/core", "\\", "a"),
     TestFile("jstests/aggregation", "/", "b"),
     HookFile("a", "CheckReplDBHash"),
     HookFile("c", "CheckReplDBHash")}

\* avg_duration_pass in seconds, and num_pass.
DurationSeconds == {0, 10, 20}
NumPassValues == {0, 5, 6}

Docs ==
    [test_file : StatsTestFiles,
     avg_duration_pass : {d * Unit : d \in DurationSeconds},
     num_pass : NumPassValues]

\* The documents the statistics request may return to Main.
MainDocs ==
    [test_file : {TestFile("jstests/core", "/", "a"),
                  TestFile("jstests/aggregation", "/", "b"),
                  HookFile("a", "CheckReplDBHash")},
     avg_duration_pass : {40 * Unit},
     num_pass : {0, 5}]

MainData == UNION {[1 .. n -> MainDocs] : n \in 0 .. MaxMainDocs}

ExecutionTimeMinutes == {1}

\* requests.codes.SERVICE_UNAVAILABLE
SERVICE_UNAVAILABLE == 503

\* The status codes of an HTTPError, and the other exceptions of a request.
HttpErrorCodes == {SERVICE_UNAVAILABLE, 500, 404}
OtherRequestErrors == {"ConnectionError", "Timeout"}

\* What list_tests() may return: the first n tests of the suite.
SuiteTests == [i \in 1 .. MaxListedTests |-> TestFile("jstests/core", "/", TestNames[i])]
ListedTestsInputs == {SubSeq(SuiteTests, 1, n) : n \in 0 .. MaxListedTests}

FallbackInputs == 1 .. MaxFallbackSuites

-----------------------------------------------------------------------------
(* The state of the objects an entry point does not use *)

NoOptions == <<>>
NotFetched == [error |-> "NotFetched", status_code |-> 0, data |-> <<>>]

StatsUnused ==
    /\ _runtime_by_test = <<>>
    /\ _hook_runtime_by_test = <<>>
    /\ samples = <<>>

MainUnused ==
    /\ options = NoOptions
    /\ config_options = NoOptions
    /\ test_list = <<>>
    /\ fetched = NotFetched
    /\ listed_tests = <<>>
    /\ generated = <<>>

-----------------------------------------------------------------------------
(* A call of divide_tests_into_suites on its own *)

InitDivide ==
    /\ pc = "divide"
    /\ tests_runtimes \in TestsRuntimesInputs
    /\ max_time_seconds \in {t * Unit : t \in TimeSeconds}
    /\ max_suites \in MaxSuitesInputs
    /\ suites = <<>>
    /\ raised = NoError
    /\ StatsUnused
    /\ MainUnused

CallDivide ==
    /\ pc = "divide"
    /\ suites' = divide_tests_into_suites(tests_runtimes, max_time_seconds, max_suites)
    /\ pc' = "divided"
    /\ UNCHANGED <<tests_runtimes, max_time_seconds, max_suites, raised,
                   stats_vars, main_vars>>

NextDivide == CallDivide

SpecDivide == InitDivide /\ [][NextDivide]_vars

-----------------------------------------------------------------------------
(* A TestStats object: documents are added one by one, then                *)
(* get_tests_runtimes is called                                            *)

\* The history of an identifier: the number of documents added for it, the
\* sums of num_pass and of avg_duration_pass * num_pass, and the least num_pass.
NoSamples == [count |-> 0, sum_n |-> 0, sum_dn |-> 0, min_n |-> 0]

SamplesOf(id) == IF id \in DOMAIN samples THEN samples[id] ELSE NoSamples

Min(a, b) == IF a <= b THEN a ELSE b

AddSample(doc) ==
    LET id == normalize_test_file(doc.test_file)
        old == SamplesOf(id)
    IN  Store(samples, id,
              [count |-> old.count + 1,
               sum_n |-> old.sum_n + doc.num_pass,
               sum_dn |-> old.sum_dn + doc.avg_duration_pass * doc.num_pass,
               min_n |-> IF old.count = 0 THEN doc.num_pass
                         ELSE Min(old.min_n, doc.num_pass)])

RECURSIVE NumDocs(_)
NumDocs(ids) ==
    IF ids = {} THEN 0
    ELSE LET id == CHOOSE x \in ids : TRUE
         IN  samples[id].count + NumDocs(ids \ {id})

Self == [raised |-> NoError, _runtime_by_test |-> _runtime_by_test,
         _hook_runtime_by_test |-> _hook_runtime_by_test]

InitStats ==
    /\ pc = "stats"
    /\ tests_runtimes = <<>>
    /\ max_time_seconds = Unit
    /\ max_suites = None
    /\ suites = <<>>
    /\ raised = NoError
    /\ StatsUnused
    /\ MainUnused

\* for doc in evg_test_stats_results: self._add_stats(doc)
AddStats ==
    /\ pc = "stats"
    /\ NumDocs(DOMAIN samples) < MaxDocs
    /\ \E doc \in Docs :
           LET added == _add_stats(Self, doc)
           IN  /\ samples' = AddSample(doc)
               /\ raised' = added.raised
               /\ pc' = IF added.raised # NoError THEN "raised" ELSE "stats"
               /\ _runtime_by_test' = added._runtime_by_test
               /\ _hook_runtime_by_test' = added._hook_runtime_by_test
    /\ UNCHANGED <<divide_vars, main_vars>>

GetTestsRuntimes ==
    /\ pc = "stats"
    /\ \E items \in ItemOrders(_runtime_by_test) :
           LET result == get_tests_runtimes(Self, items)
           IN  /\ tests_runtimes' = result.tests
               /\ _hook_runtime_by_test' = result.hooks
    /\ pc' = "runtimes"
    /\ UNCHANGED <<max_time_seconds, max_suites, suites, raised,
                   _runtime_by_test, samples, main_vars>>

NextStats == AddStats \/ GetTestsRuntimes

SpecStats == InitStats /\ [][NextStats]_vars

-----------------------------------------------------------------------------
(* Main.main *)

InitMain ==
    /\ pc = "main"
    /\ tests_runtimes = <<>>
    /\ max_time_seconds = 0
    /\ max_suites = None
    /\ suites = <<>>
    /\ raised = NoError
    /\ StatsUnused
    /\ MainUnused

\* options = self.parse_commandline(); self.options = options
ParseCommandline ==
    /\ pc = "main"
    /\ \E cmd_max \in MaxSuitesInputs, file_max \in MaxSuitesInputs,
          cmd_fallback \in {None} \cup FallbackInputs, file_fallback \in FallbackInputs,
          minutes \in ExecutionTimeMinutes :
           LET cmd_line == [execution_time_minutes |-> minutes,
                            max_sub_suites |-> cmd_max,
                            fallback_num_sub_suites |-> cmd_fallback]
               file == [max_sub_suites |-> file_max,
                        fallback_num_sub_suites |-> file_fallback,
                        suite |-> "core", task |-> "jsCore"]
           IN  /\ options' = cmd_line
               /\ config_options' = get_config_options(cmd_line, file)
    /\ pc' = "parsed"
    /\ UNCHANGED <<divide_vars, raised, stats_vars, test_list, fetched,
                   listed_tests, generated>>

\* calculate_suites when get_evg_stats returns documents.
CalculateSuitesFromStats ==
    /\ pc = "parsed"
    /\ \E data \in MainData :
         \E items \in ItemOrders(TestStats(data)._runtime_by_test) :
           LET result == calculate_suites_from_evg_stats(data,
                             options.execution_time_minutes * 60 * Unit,
                             options.max_sub_suites, items)
           IN  /\ fetched' = [error |-> NoError, status_code |-> 200, data |-> data]
               /\ raised' = result.raised
               /\ test_list' = result.test_list
               /\ suites' = result.suites
               /\ pc' = IF result.raised # NoError THEN "raised" ELSE "calculated"
    /\ UNCHANGED <<tests_runtimes, max_time_seconds, max_suites, stats_vars,
                   options, config_options, listed_tests, generated>>

\* calculate_suites when get_evg_stats raises an HTTPError with status 503.
CalculateSuitesFallback ==
    /\ pc = "parsed"
    /\ fetched' = [error |-> "HTTPError", status_code |-> SERVICE_UNAVAILABLE,
                   data |-> <<>>]
    /\ \E tests \in ListedTestsInputs :
           /\ listed_tests' = tests
           /\ suites' = calculate_fallback_suites(
                            config_options.fallback_num_sub_suites, tests)
    /\ pc' = "calculated"
    /\ UNCHANGED <<tests_runtimes, max_time_seconds, max_suites, raised, stats_vars,
                   options, config_options, test_list, generated>>

\* calculate_suites when get_evg_stats raises anything else.
CalculateSuitesRaises ==
    /\ pc = "parsed"
    /\ \/ \E code \in HttpErrorCodes \ {SERVICE_UNAVAILABLE} :
              /\ fetched' = [error |-> "HTTPError", status_code |-> code, data |-> <<>>]
              /\ raised' = "HTTPError"
       \/ \E error \in OtherRequestErrors :
              /\ fetched' = [error |-> error, status_code |-> 0, data |-> <<>>]
              /\ raised' = error
    /\ pc' = "raised"
    /\ UNCHANGED <<divide_vars, stats_vars, options, config_options, test_list,
                   listed_tests, generated>>

\* suites = self.calculate_suites(start_date, end_date)
CalculateSuites ==
    \/ CalculateSuitesFromStats
    \/ CalculateSuitesFallback
    \/ CalculateSuitesRaises

\* render_suite(suites, self.config_options.suite)
RenderSuite ==
    /\ pc = "calculated"
    /\ suites' = named_suites(suites, config_options.suite)
    /\ generated' = generated \o render_suite(suites, config_options.suite)
    /\ pc' = "rendered"
    /\ UNCHANGED <<tests_runtimes, max_time_seconds, max_suites, raised, stats_vars,
                   options, config_options, test_list, fetched, listed_tests>>

\* render_misc_suite(self.test_list, self.config_options.suite)
RenderMiscSuite ==
    /\ pc = "rendered"
    /\ generated' = Append(generated, render_misc_suite(test_list, config_options.suite))
    /\ pc' = "misc_rendered"
    /\ UNCHANGED <<divide_vars, raised, stats_vars, options, config_options,
                   test_list, fetched, listed_tests>>

\* self.write_evergreen_configuration(suites, self.config_options.task)
WriteEvergreenConfiguration ==
    /\ pc = "misc_rendered"
    /\ generated' = Append(generated, generate_evg_config(suites, config_options))
    /\ pc' = "done"
    /\ UNCHANGED <<divide_vars, raised, stats_vars, options, config_options,
                   test_list, fetched, listed_tests>>

NextMain ==
    \/ ParseCommandline
    \/ CalculateSuites
    \/ RenderSuite
    \/ RenderMiscSuite
    \/ WriteEvergreenConfiguration

SpecMain == InitMain /\ [][NextMain]_vars

-----------------------------------------------------------------------------
(* Properties of divide_tests_into_suites *)

\* The test identifiers of all suites, in suite order.
RECURSIVE AllTests(_)
AllTests(ss) == IF ss = <<>> THEN <<>> ELSE Head(ss).tests \o AllTests(Tail(ss))

Occurrences(seq, x) == Cardinality({i \in DOMAIN seq : seq[i] = x})

InputTests(list) == {list[i][1] : i \in DOMAIN list}

RuntimeOf(list, test_file) ==
    LET i == CHOOSE j \in DOMAIN list : list[j][1] = test_file IN list[i][2]

\* The index at which the max_suites limit stopped the for loop, or the
\* length of the list when it did not.
StopIndex == greedy_pass(tests_runtimes, max_time_seconds, max_suites).last_test_processed

Overflowed == Truthy(max_suites) /\ StopIndex < Len(tests_runtimes)

\* C1: for a non-empty list of tests with distinct identifiers, the suites
\* returned by divide_tests_into_suites contain every input test exactly once
\* and no other test, also when the max_suites limit stopped the loop and the
\* remaining tests were dealt out round-robin.
C1_Totality ==
    (pc = "divided" /\ Len(tests_runtimes) > 0) =>
        /\ \A t \in InputTests(tests_runtimes) : Occurrences(AllTests(suites), t) = 1
        /\ \A i \in DOMAIN AllTests(suites) :
               AllTests(suites)[i] \in InputTests(tests_runtimes)

\* A run in which the limit stopped the loop with at least two tests left.
C1_Witness ==
    /\ pc = "divided"
    /\ Overflowed
    /\ Len(tests_runtimes) - StopIndex >= 2
    /\ Len(AllTests(suites)) = Len(tests_runtimes)

\* C2: when the division ended without round-robin overflow, every suite
\* has total_runtime <= max_time_seconds, except a suite whose first test
\* alone exceeds max_time_seconds, and such a suite holds that test only.
C2_BudgetRespected ==
    (pc = "divided" /\ ~Overflowed) =>
        \A s \in DOMAIN suites :
            \/ suites[s].total_runtime <= max_time_seconds
            \/ /\ RuntimeOf(tests_runtimes, suites[s].tests[1]) > max_time_seconds
               /\ Len(suites[s].tests) = 1

\* A division without overflow that has an oversized test alone in a suite
\* next to a suite of several tests.
C2_Witness ==
    /\ pc = "divided"
    /\ ~Overflowed
    /\ \E s \in DOMAIN suites :
           suites[s].total_runtime > max_time_seconds /\ Len(suites[s].tests) = 1
    /\ \E s \in DOMAIN suites :
           Len(suites[s].tests) >= 2 /\ suites[s].total_runtime > 0

\* C5: with max_suites set to an integer >= 1, divide_tests_into_suites
\* returns at most max_suites suites.
C5_AtMostMaxSuites ==
    (pc = "divided" /\ max_suites # None /\ max_suites >= 1) =>
        Len(suites) <= max_suites

\* A division stopped by the limit that returns exactly max_suites suites.
C5_Witness ==
    pc = "divided" /\ Overflowed /\ max_suites >= 2 /\ Len(suites) = max_suites

\* The tests at the indices StopIndex + j with j mod n = s, in input order.
RECURSIVE RoundRobinShare(_, _, _, _)
RoundRobinShare(list, from, s, n) ==
    IF from >= Len(list) THEN <<>>
    ELSE (IF (from - StopIndex) % n = s THEN <<list[from + 1][1]>> ELSE <<>>)
             \o RoundRobinShare(list, from + 1, s, n)

\* The suites closed by the for loop before the limit stopped it.
ClosedSuites == greedy_pass(tests_runtimes, max_time_seconds, max_suites).suites

\* C6: when the max_suites limit stops the for loop at index k, the test at
\* index k + j goes to suite j mod len(suites), starting with suite 0 and the
\* test that triggered the stop, after the tests the loop had put there and
\* whatever the runtime; (A,100),(B,100),(C,100),(D,100) with 150 seconds and
\* two suites gives the suites [A,C] and [B,D].
C6_RoundRobin ==
    (pc = "divided" /\ Overflowed) =>
        /\ Len(suites) = Len(ClosedSuites)
        /\ \A s \in DOMAIN suites :
               suites[s].tests =
                   ClosedSuites[s].tests
                       \o RoundRobinShare(tests_runtimes, StopIndex, s - 1, Len(suites))
        /\ (/\ tests_runtimes = <<<<"A", 100 * Unit>>, <<"B", 100 * Unit>>,
                                  <<"C", 100 * Unit>>, <<"D", 100 * Unit>>>>
            /\ max_time_seconds = 150 * Unit
            /\ max_suites = 2)
           => (/\ Len(suites) = 2
               /\ suites[1].tests = <<"A", "C">>
               /\ suites[2].tests = <<"B", "D">>)

\* The example of the claim, and a suite that received two remaining tests.
C6_Witness ==
    /\ pc = "divided"
    /\ Overflowed
    /\ tests_runtimes = <<<<"A", 100 * Unit>>, <<"B", 100 * Unit>>,
                            <<"C", 100 * Unit>>, <<"D", 100 * Unit>>>>
    /\ max_time_seconds = 150 * Unit
    /\ max_suites = 2
    /\ suites[1].tests = <<"A", "C">>

-----------------------------------------------------------------------------
(* Properties of TestStats *)

\* C3: constructing TestStats from documents whose num_pass is a
\* non-negative integer never ends in a division by zero.
C3_NoDivisionByZero == raised # ZeroDivisionError

Abs(x) == IF x < 0 THEN 0 - x ELSE x

\* The identifiers of tests all of whose documents have num_pass >= 1.
TestsWithPasses ==
    {id \in DOMAIN _runtime_by_test : samples[id].min_n >= 1}

\* C8 as stated: after any sequence of documents (d_i, n_i) with n_i >= 1
\* for one test, the stored duration equals (sum of d_i * n_i) / (sum of
\* n_i), the float nearest to that quotient, and num_run the sum of n_i.
C8_ExactWeightedAverage ==
    \A id \in TestsWithPasses :
        /\ _runtime_by_test[id].num_run = samples[id].sum_n
        /\ _runtime_by_test[id].duration = FRound(samples[id].sum_dn, samples[id].sum_n)

\* C8 amended: num_run equals the sum of n_i; the duration is the quotient
\* (sum of d_i * n_i) / (sum of n_i) up to the rounding of the k - 1 merges
\* (three roundings each: product, sum, quotient), a relative error of at
\* most 4 * (k - 1) * 2^-MantissaBits, and it is exact after a single
\* document and for (10s,5) merged with (20s,5), which gives 15 seconds and
\* num_run 10.
C8_WeightedAverageUpToRounding ==
    \A id \in TestsWithPasses :
        LET stored == _runtime_by_test[id]
            seen == samples[id]
        IN  /\ stored.num_run = seen.sum_n
            /\ Abs(stored.duration * seen.sum_n - seen.sum_dn) * 2 ^ MantissaBits
                   <= 4 * (seen.count - 1) * seen.sum_dn
            /\ (seen.count = 2 /\ seen.sum_n = 10 /\ seen.sum_dn = 150 * Unit)
                   => (stored.duration = 15 * Unit /\ stored.num_run = 10)

\* The example: (10s,5) and (20s,5) merged, in either order.
C8_Witness ==
    \E id \in TestsWithPasses :
        /\ samples[id].count = 2
        /\ samples[id].sum_n = 10
        /\ samples[id].sum_dn = 150 * Unit
        /\ _runtime_by_test[id].duration = 15 * Unit

\* The identifiers of the tests, and of the hooks, that had a document.
TestsSeen == {id \in DOMAIN samples : ~is_resmoke_hook(id)}
HooksSeen == {id \in DOMAIN samples : is_resmoke_hook(id)}

HookSeenFor(test_file) ==
    \E h \in HooksSeen :
        split_test_hook_name_0(h) = get_short_name_from_test_file(test_file)

\* C9: get_tests_runtimes returns one entry per test identifier seen in the
\* documents and none for a hook; the runtime of an entry is the averaged
\* duration of the test plus the averaged duration of the hooks stored under
\* its short name when there is one, and the averaged duration of the test
\* otherwise.
C9_HookFolding ==
    pc = "runtimes" =>
        /\ {tests_runtimes[i][1] : i \in DOMAIN tests_runtimes} = TestsSeen
        /\ Len(tests_runtimes) = Cardinality(TestsSeen)
        /\ \A i \in DOMAIN tests_runtimes :
               LET test_file == tests_runtimes[i][1]
                   own == _runtime_by_test[test_file].duration
                   short == get_short_name_from_test_file(test_file)
               IN  /\ ~is_resmoke_hook(test_file)
                   /\ tests_runtimes[i][2] =
                          IF HookSeenFor(test_file)
                          THEN FAdd(own, _hook_runtime_by_test[short].duration)
                          ELSE own

\* A test with a hook of non-zero duration, next to a hook whose test had
\* no document.
C9_Witness ==
    /\ pc = "runtimes"
    /\ Len(tests_runtimes) = 1
    /\ HookSeenFor(tests_runtimes[1][1])
    /\ tests_runtimes[1][2] > _runtime_by_test[tests_runtimes[1][1]].duration
    /\ \E h \in HooksSeen : ~\E t \in TestsSeen :
           get_short_name_from_test_file(t) = split_test_hook_name_0(h)

-----------------------------------------------------------------------------
(* Properties of Main *)

Range(seq) == {seq[i] : i \in DOMAIN seq}

\* C4: on the statistics path and on the fallback path alike, the list that
\* Main hands to render_misc_suite (self.test_list) contains exactly the
\* tests assigned to the suites returned.
C4_MiscCoversOnlyUnassigned ==
    pc \in {"misc_rendered", "done"} =>
        /\ generated[Len(suites) + 1].exclude_files = test_list
        /\ Range(test_list) = Range(AllTests(suites))

FetchFailedWith503 ==
    fetched.error = "HTTPError" /\ fetched.status_code = SERVICE_UNAVAILABLE

FetchSucceeded == fetched.error = NoError

\* The suites are those of the fallback: fallback_num_sub_suites suites of
\* runtime 0 that hold the tests listed.
FallbackReturned ==
    /\ raised = NoError
    /\ Len(suites) = config_options.fallback_num_sub_suites
    /\ Range(AllTests(suites)) = Range(listed_tests)
    /\ \A s \in DOMAIN suites : suites[s].total_runtime = 0

\* The suites are those made from the statistics: no suite is empty and
\* they hold the tests of the documents returned.
StatsPartitionReturned ==
    /\ raised = NoError
    /\ \A s \in DOMAIN suites : suites[s].tests # <<>>
    /\ Range(AllTests(suites)) =
           {normalize_test_file(fetched.data[i].test_file) :
               i \in {j \in DOMAIN fetched.data :
                         ~is_resmoke_hook(fetched.data[j].test_file)}}
    /\ Range(test_list) = Range(AllTests(suites))

\* C7: calculate_suites returns the fallback partition, and the run goes on,
\* exactly when the statistics request fails with status 503; any other
\* failure of the request is raised to the caller and nothing is produced or
\* rendered; a request that succeeds always yields the partition made from
\* the statistics.
C7_StatisticsFailureHandling ==
    pc \notin {"main", "parsed"} =>
        /\ FetchFailedWith503 <=> FallbackReturned
        /\ (~FetchSucceeded /\ ~FetchFailedWith503) =>
               (raised # NoError /\ suites = <<>> /\ generated = <<>>)
        /\ FetchSucceeded => StatsPartitionReturned

\* C10: calculate_fallback_suites returns fallback_num_sub_suites suites;
\* the test at position i is in suite i mod num_suites, behind the tests
\* that precede it in the list; every test is there once; the runtime of
\* every suite is 0; 10 tests and 3 suites give suites of 4, 3 and 3 tests.
C10_FallbackPartition ==
    (pc = "calculated" /\ FetchFailedWith503) =>
        LET num_suites == config_options.fallback_num_sub_suites
        IN  /\ Len(suites) = num_suites
            /\ \A i \in 0 .. Len(listed_tests) - 1 :
                   /\ Len(suites[(i % num_suites) + 1].tests) >= (i \div num_suites) + 1
                   /\ suites[(i % num_suites) + 1].tests[(i \div num_suites) + 1]
                          = listed_tests[i + 1]
            /\ Len(AllTests(suites)) = Len(listed_tests)
            /\ \A s \in DOMAIN suites : suites[s].total_runtime = 0
            /\ (Len(listed_tests) = 10 /\ num_suites = 3) =>
                   (/\ Len(suites[1].tests) = 4
                    /\ Len(suites[2].tests) = 3
                    /\ Len(suites[3].tests) = 3)

\* The example: 10 tests in 3 suites.
C10_Witness ==
    /\ pc = "calculated"
    /\ FetchFailedWith503
    /\ Len(listed_tests) = 10
    /\ Len(suites) = 3
    /\ Len(suites[1].tests) = 4

\* C11: the limit on the number of suites applied on the statistics path is
\* the max_sub_suites of config_options, the command line value when given
\* and the config file value otherwise; so with max_sub_suites set, on the
\* command line or only in the config file, calculate_suites_from_evg_stats
\* returns at most that many suites.
C11_EffectiveMaxSubSuites ==
    (pc = "calculated" /\ FetchSucceeded /\ Truthy(config_options.max_sub_suites)) =>
        Len(suites) <= config_options.max_sub_suites

====
